---- MODULE Spec2Model ----
(***************************************************************************)
(* Chain store of src/blockchain/blockchain.ts: the in-memory block list,  *)
(* the unspent-output snapshot, difficulty, mining, append and replace.    *)
(* The validator, digest, payload applier, clock and network are the       *)
(* collaborators the file imports; they are modelled from their contracts. *)
(***************************************************************************)
EXTENDS Integers, Sequences, FiniteSets, TLC

\* ------------------------------------------------------------------ bounds
MaxLen == 3          \* longest chain the environment lets the store reach
MaxMiningLen == MaxLen - 1   \* the same, while searches overlap other calls
MaxDifficulty == 2   \* largest difficulty a peer block claims honestly
MaxTicks == 1        \* clock readings after process start
ClockStep == 30      \* seconds between two clock readings
HashBits == 4        \* width of the digest word the difficulty is read from
MaxWaits == 5        \* clock steps of half a window the store waits in all

VARIABLES
    blockchain,      \* let blockchain: Block[]
    unspentTxOuts,   \* let unspentTxOuts: UnspentTxOut[]
    clock,           \* Util.getCurrentTimestamp()
    ret,             \* the last call: operation, argument, outcome
    broadcasts,      \* Network.broadcastLatest() signals of the last call
    mined,           \* block found by a search whose append is still pending
    advanced         \* the chain changed during the latest search

vars == <<blockchain, unspentTxOuts, clock, ret, broadcasts, mined, advanced>>

\* ------------------------------------------------------------ block model
Block(index, hash, previousHash, timestamp, data, difficulty, nonce) ==
    [index |-> index, hash |-> hash, previousHash |-> previousHash,
     timestamp |-> timestamp, data |-> data, difficulty |-> difficulty,
     nonce |-> nonce]

genesisBlock ==
    Block(0, <<"816534932c2b7154836da6afc367695e6337db8a921823784c14378abed4f7d7">>,
          <<"0">>, 1588310945, <<>>, 0, 0)

getBlockchain == blockchain

getGenesisBlock == genesisBlock

getLatestBlock == blockchain[Len(blockchain)]

BLOCK_GENERATION_INTERVAL == 10

DIFFICULTY_ADJUSTMENT_INTERVAL == 10

\* ---------------------------------------------------- digest collaborator
\* A collision-resistant digest: distinct field tuples give distinct hashes.
calculateHash(index, previousHash, timestamp, data, difficulty, nonce) ==
    <<index, previousHash, timestamp, data, difficulty, nonce>>

Pow2(n) == 2 ^ n

\* The HashBits-wide word whose leading zero bits the difficulty counts.
\* The hard-coded genesis hash starts with hex digit 8: no leading zero bit.
HashWord(hash) ==
    IF Len(hash) # 6 THEN Pow2(HashBits - 1)
    ELSE (7 * hash[1] + 3 * Len(hash[2]) + hash[3] + 5 * Len(hash[4])
          + 11 * hash[5] + 9 * hash[6] + 6) % Pow2(HashBits)

RECURSIVE BitLength(_)
BitLength(w) == IF w = 0 THEN 0 ELSE 1 + BitLength(w \div 2)

LeadingZeroBits(hash) == HashBits - BitLength(HashWord(hash))

hashMatchesDifficulty(hash, difficulty) == LeadingZeroBits(hash) >= difficulty

\* ------------------------------------------------- validator collaborator
TimestampTolerance == 60

isValidTimestamp(newBlock, previousBlock, now) ==
    /\ previousBlock.timestamp - TimestampTolerance < newBlock.timestamp
    /\ newBlock.timestamp - TimestampTolerance < now

calculateHashForBlock(block) ==
    calculateHash(block.index, block.previousHash, block.timestamp,
                  block.data, block.difficulty, block.nonce)

isValidNewBlock(newBlock, previousBlock, now) ==
    /\ previousBlock.index + 1 = newBlock.index
    /\ previousBlock.hash = newBlock.previousHash
    /\ isValidTimestamp(newBlock, previousBlock, now)
    /\ calculateHashForBlock(newBlock) = newBlock.hash
    /\ hashMatchesDifficulty(newBlock.hash, newBlock.difficulty)

isValidChain(blockchainToValidate, now) ==
    /\ Len(blockchainToValidate) >= 1
    /\ blockchainToValidate[1] = genesisBlock
    /\ \A i \in 2..Len(blockchainToValidate) :
          isValidNewBlock(blockchainToValidate[i], blockchainToValidate[i - 1], now)

\* --------------------------------------------- payload applier (balances)
\* The snapshot is the set of spendable output ids.  A coinbase transaction
\* creates the output named after its block; a spend consumes an output.
Coinbase == [type |-> "coinbase", ref |-> 0]

Spend(k) == [type |-> "spend", ref |-> k]

NullUnspent == [isNull |-> TRUE, outs |-> {}]

RECURSIVE applyTransactions(_, _, _, _)
applyTransactions(aTransactions, pos, outs, blockIndex) ==
    IF pos > Len(aTransactions) THEN [isNull |-> FALSE, outs |-> outs]
    ELSE LET tx == aTransactions[pos] IN
         IF tx.type = "coinbase"
         THEN IF pos = 1
              THEN applyTransactions(aTransactions, pos + 1,
                                     outs \cup {blockIndex}, blockIndex)
              ELSE NullUnspent
         ELSE IF tx.ref \in outs
              THEN applyTransactions(aTransactions, pos + 1,
                                     outs \ {tx.ref}, blockIndex)
              ELSE NullUnspent

processTransactions(aTransactions, aUnspentTxOuts, blockIndex) ==
    applyTransactions(aTransactions, 1, aUnspentTxOuts, blockIndex)

\* The snapshot obtained by folding the payloads of a chain's first n blocks
\* in order, starting from the empty snapshot.
RECURSIVE foldPayloads(_, _)
foldPayloads(aBlockchain, n) ==
    IF n = 0 THEN [isNull |-> FALSE, outs |-> {}]
    ELSE LET before == foldPayloads(aBlockchain, n - 1) IN
         IF before.isNull THEN NullUnspent
         ELSE processTransactions(aBlockchain[n].data, before.outs,
                                  aBlockchain[n].index)

\* ------------------------------------------------------ difficulty engine
\* The element a JavaScript array holds at a 0-based position.
At(array, position) == array[position + 1]

\* The position line 97 reads the reference block from, one too early in
\* the variant.
prevAdjustmentPosition_oneEarlier ==
    Len(blockchain) - DIFFICULTY_ADJUSTMENT_INTERVAL - 1

prevAdjustmentPosition == Len(blockchain) - DIFFICULTY_ADJUSTMENT_INTERVAL

\* Variant that also adjusts at the two limits of the window.
getAdjustedDifficulty_inclusiveLimits(latestBlock, aBlockchain) ==
    LET prevAdjustmentBlock == At(aBlockchain, prevAdjustmentPosition)
        timeExpected == BLOCK_GENERATION_INTERVAL * DIFFICULTY_ADJUSTMENT_INTERVAL
        timeTaken == latestBlock.timestamp - prevAdjustmentBlock.timestamp
    IN  IF 2 * timeTaken <= timeExpected
        THEN prevAdjustmentBlock.difficulty + 1
        ELSE IF timeTaken >= timeExpected * 2
             THEN prevAdjustmentBlock.difficulty - 1
             ELSE prevAdjustmentBlock.difficulty

getAdjustedDifficulty(latestBlock, aBlockchain) ==
    LET prevAdjustmentBlock == At(aBlockchain, prevAdjustmentPosition)
        timeExpected == BLOCK_GENERATION_INTERVAL * DIFFICULTY_ADJUSTMENT_INTERVAL
        timeTaken == latestBlock.timestamp - prevAdjustmentBlock.timestamp
    IN  IF 2 * timeTaken < timeExpected
        THEN prevAdjustmentBlock.difficulty + 1
        ELSE IF timeTaken > timeExpected * 2
             THEN prevAdjustmentBlock.difficulty - 1
             ELSE prevAdjustmentBlock.difficulty

\* Variant that reads the first block instead of the latest.
getDifficulty_readsFirstBlock(aBlockchain) ==
    LET latestBlock == At(aBlockchain, 0) IN
    IF latestBlock.index % DIFFICULTY_ADJUSTMENT_INTERVAL = 0 /\ latestBlock.index # 0
    THEN getAdjustedDifficulty(latestBlock, aBlockchain)
    ELSE latestBlock.difficulty

getDifficulty(aBlockchain) ==
    LET latestBlock == At(aBlockchain, Len(blockchain) - 1) IN
    IF latestBlock.index % DIFFICULTY_ADJUSTMENT_INTERVAL = 0 /\ latestBlock.index # 0
    THEN getAdjustedDifficulty(latestBlock, aBlockchain)
    ELSE latestBlock.difficulty

RECURSIVE sumWork(_, _)
sumWork(aBlockchain, n) ==
    IF n = 0 THEN 0
    ELSE sumWork(aBlockchain, n - 1) + Pow2(aBlockchain[n].difficulty)

\* Variant whose sum leaves the first block out.
getAccumulatedDifficulty_skipsFirst(aBlockchain) ==
    sumWork(aBlockchain, Len(aBlockchain)) - Pow2(aBlockchain[1].difficulty)

getAccumulatedDifficulty(aBlockchain) == sumWork(aBlockchain, Len(aBlockchain))

\* ------------------------------------------------------------------ miner
RECURSIVE searchNonce(_, _, _, _, _, _)
searchNonce(index, previousHash, timestamp, data, difficulty, nonce) ==
    IF hashMatchesDifficulty(
           calculateHash(index, previousHash, timestamp, data, difficulty, nonce),
           difficulty)
    THEN nonce
    ELSE searchNonce(index, previousHash, timestamp, data, difficulty, nonce + 1)

\* Variant whose search skips nonce 0.
findBlock_startsAtOne(index, previousHash, timestamp, data, difficulty) ==
    LET nonce == searchNonce(index, previousHash, timestamp, data, difficulty, 1)
    IN  Block(index,
              calculateHash(index, previousHash, timestamp, data, difficulty, nonce),
              previousHash, timestamp, data, difficulty, nonce)

findBlock(index, previousHash, timestamp, data, difficulty) ==
    LET nonce == searchNonce(index, previousHash, timestamp, data, difficulty, 0)
    IN  Block(index,
              calculateHash(index, previousHash, timestamp, data, difficulty, nonce),
              previousHash, timestamp, data, difficulty, nonce)

\* ------------------------------------------------ chain store, acceptance
\* Each operation is a function of the current state: the value it returns,
\* the chain and snapshot it leaves, and the broadcasts it signals.
Rejected == [ok |-> FALSE, blockchain |-> blockchain,
             unspentTxOuts |-> unspentTxOuts, broadcasts |-> 0]

\* Variants of addBlockToChain with one slip each.
addBlockToChain_keepsSnapshot(newBlock) ==
    IF /\ isValidNewBlock(newBlock, getLatestBlock, clock)
       /\ ~processTransactions(newBlock.data, unspentTxOuts, newBlock.index).isNull
    THEN [Rejected EXCEPT !.ok = TRUE, !.blockchain = Append(blockchain, newBlock)]
    ELSE Rejected

addBlockToChain_pushesFirst(newBlock) ==
    LET newUnspentTxOuts ==
            processTransactions(newBlock.data, unspentTxOuts, newBlock.index)
    IN  IF isValidNewBlock(newBlock, getLatestBlock, clock) /\ ~newUnspentTxOuts.isNull
        THEN [ok |-> TRUE, blockchain |-> Append(blockchain, newBlock),
              unspentTxOuts |-> newUnspentTxOuts.outs, broadcasts |-> 0]
        ELSE [Rejected EXCEPT !.blockchain = Append(blockchain, newBlock)]

addBlockToChain_pushesBeforeApply(newBlock) ==
    IF isValidNewBlock(newBlock, getLatestBlock, clock)
    THEN LET newUnspentTxOuts ==
                 processTransactions(newBlock.data, unspentTxOuts, newBlock.index)
         IN  IF newUnspentTxOuts.isNull
             THEN [Rejected EXCEPT !.blockchain = Append(blockchain, newBlock)]
             ELSE [ok |-> TRUE, blockchain |-> Append(blockchain, newBlock),
                   unspentTxOuts |-> newUnspentTxOuts.outs, broadcasts |-> 0]
    ELSE Rejected

addBlockToChain_skipsValidation(newBlock) ==
    LET newUnspentTxOuts ==
            processTransactions(newBlock.data, unspentTxOuts, newBlock.index)
    IN  IF newUnspentTxOuts.isNull
        THEN Rejected
        ELSE [ok |-> TRUE, blockchain |-> Append(blockchain, newBlock),
              unspentTxOuts |-> newUnspentTxOuts.outs, broadcasts |-> 0]

addBlockToChain(newBlock) ==
    IF isValidNewBlock(newBlock, getLatestBlock, clock)
    THEN LET newUnspentTxOuts ==
                 processTransactions(newBlock.data, unspentTxOuts, newBlock.index)
         IN  IF newUnspentTxOuts.isNull
             THEN [ok |-> FALSE, blockchain |-> blockchain,
                   unspentTxOuts |-> unspentTxOuts, broadcasts |-> 0]
             ELSE [ok |-> TRUE, blockchain |-> Append(blockchain, newBlock),
                   unspentTxOuts |-> newUnspentTxOuts.outs, broadcasts |-> 0]
    ELSE [ok |-> FALSE, blockchain |-> blockchain,
          unspentTxOuts |-> unspentTxOuts, broadcasts |-> 0]

\* Variant that gives the new block the index of the latest one.
mineNextBlock_reusesIndex(data) ==
    LET previousBlock == getLatestBlock
        nextTimestamp == clock
        difficulty == getDifficulty(getBlockchain)
    IN  findBlock(previousBlock.index, previousBlock.hash, nextTimestamp, data,
                  difficulty)

\* generateNextBlock up to the end of the search (lines 113-117).
mineNextBlock(data) ==
    LET previousBlock == getLatestBlock
        nextIndex == previousBlock.index + 1
        nextTimestamp == clock
        difficulty == getDifficulty(getBlockchain)
    IN  findBlock(nextIndex, previousBlock.hash, nextTimestamp, data, difficulty)

\* generateNextBlock from the append on (lines 119-124).
appendMinedBlock(newBlock) ==
    LET added == addBlockToChain(newBlock) IN
    IF added.ok
    THEN [added EXCEPT !.broadcasts = added.broadcasts + 1]
    ELSE added

generateNextBlock(data) == appendMinedBlock(mineNextBlock(data))

Replaced(newBlockchain) ==
    [ok |-> TRUE, blockchain |-> newBlockchain,
     unspentTxOuts |-> unspentTxOuts, broadcasts |-> 1]

\* Variants of replaceChain with one slip each.
replaceChain_longestChain(newBlockchain) ==
    IF /\ isValidChain(newBlockchain, clock)
       /\ Len(newBlockchain) > Len(getBlockchain)
    THEN Replaced(newBlockchain)
    ELSE Rejected

replaceChain_acceptsTie(newBlockchain) ==
    IF /\ isValidChain(newBlockchain, clock)
       /\ getAccumulatedDifficulty(newBlockchain)
            >= getAccumulatedDifficulty(getBlockchain)
    THEN Replaced(newBlockchain)
    ELSE Rejected

replaceChain_skipsValidation(newBlockchain) ==
    IF /\ Len(newBlockchain) >= 1
       /\ getAccumulatedDifficulty(newBlockchain)
            > getAccumulatedDifficulty(getBlockchain)
    THEN Replaced(newBlockchain)
    ELSE Rejected

replaceChain_trustsFirstBlock(newBlockchain) ==
    IF /\ Len(newBlockchain) >= 1
       /\ isValidChain(<<genesisBlock>> \o Tail(newBlockchain), clock)
       /\ getAccumulatedDifficulty(newBlockchain)
            > getAccumulatedDifficulty(getBlockchain)
    THEN Replaced(newBlockchain)
    ELSE Rejected

replaceChain(newBlockchain) ==
    IF /\ isValidChain(newBlockchain, clock)
       /\ getAccumulatedDifficulty(newBlockchain)
            > getAccumulatedDifficulty(getBlockchain)
    THEN [ok |-> TRUE, blockchain |-> newBlockchain,
          unspentTxOuts |-> unspentTxOuts, broadcasts |-> 1]
    ELSE [ok |-> FALSE, blockchain |-> blockchain,
          unspentTxOuts |-> unspentTxOuts, broadcasts |-> 0]

\* ------------------------------------------------------------ environment
\* Payloads of callers and peers: nothing, a coinbase, a spend of the output
\* the coinbase of block 1 creates.
Payloads == {<<>>, <<Coinbase>>, <<Spend(1)>>}

\* Peers mine at the hardest difficulty; the store itself mines at the
\* difficulty getDifficulty gives, which starts at the genesis block's 0.
Difficulties == {MaxDifficulty}

\* Blocks an honest peer mines on top of a block it holds.
MinedOn(previousBlock) ==
    {findBlock(previousBlock.index + 1, previousBlock.hash, clock, data, difficulty) :
        data \in Payloads, difficulty \in Difficulties}

\* A block whose digest is right but does not meet the difficulty it claims.
UnsolvedBlock(index, previousHash, timestamp, data, difficulty) ==
    LET nonce == CHOOSE n \in 0..(Pow2(HashBits) - 1) :
                    ~hashMatchesDifficulty(
                        calculateHash(index, previousHash, timestamp, data,
                                      difficulty, n), difficulty)
    IN  Block(index,
              calculateHash(index, previousHash, timestamp, data, difficulty, nonce),
              previousHash, timestamp, data, difficulty, nonce)

\* Blocks that break one rule of the new-block validator each.
ForgedOn(previousBlock, difficulty) ==
    LET index == previousBlock.index + 1
        honest == findBlock(index, previousBlock.hash, clock, <<>>, difficulty)
    IN  { findBlock(index, genesisBlock.previousHash, clock, <<>>, difficulty),
          findBlock(index + 1, previousBlock.hash, clock, <<>>, difficulty),
          findBlock(index, previousBlock.hash, clock + TimestampTolerance,
                    <<>>, difficulty),
          findBlock(index, previousBlock.hash,
                    previousBlock.timestamp - TimestampTolerance, <<>>, difficulty),
          [honest EXCEPT !.data = <<Coinbase>>],
          UnsolvedBlock(index, previousBlock.hash, clock, <<>>, HashBits) }

\* Blocks mined on a block that is no longer the latest one.
StaleBlocks ==
    {findBlock(blockchain[p].index + 1, blockchain[p].hash, clock, <<>>, 0) :
        p \in 1..(Len(blockchain) - 1)}

ReceivedBlocks ==
    MinedOn(getLatestBlock) \cup ForgedOn(getLatestBlock, 0) \cup StaleBlocks

\* A chain, and the chains of peers one block ahead of it.
Extensions(chain, limit) ==
    IF Len(chain) >= limit THEN {chain}
    ELSE {chain} \cup {Append(chain, b) : b \in MinedOn(chain[Len(chain)])}

\* Chains of peers that share a prefix with the store's chain.
ForkedChains(limit) ==
    UNION {Extensions(SubSeq(blockchain, 1, p), limit) : p \in 1..Len(blockchain)}

\* Chains that fail the chain validator, most of them claiming much work.
ForgedChains ==
    LET forgedGenesis == [genesisBlock EXCEPT !.data = <<Coinbase>>] IN
    {<<>>, <<forgedGenesis,
             findBlock(1, forgedGenesis.hash, clock, <<>>, MaxDifficulty)>>}
    \cup {Append(SubSeq(blockchain, 1, p), b) :
             p \in {1}, b \in ForgedOn(blockchain[1], MaxDifficulty)}

ReceivedChains(limit) == ForkedChains(limit) \cup ForgedChains

\* ---------------------------------------------------------------- actions
\* ret.before is the chain the call found.
Idle == [op |-> "none", ok |-> FALSE, arg |-> <<>>, before |-> <<>>]

Init ==
    /\ blockchain = <<genesisBlock>>
    /\ unspentTxOuts = {}
    /\ clock = genesisBlock.timestamp
    /\ ret = Idle
    /\ broadcasts = 0
    /\ mined = <<>>
    /\ advanced = FALSE

Install(outcome) ==
    /\ blockchain' = outcome.blockchain
    /\ unspentTxOuts' = outcome.unspentTxOuts
    /\ broadcasts' = outcome.broadcasts
    /\ advanced' = (advanced \/ (mined # <<>> /\ outcome.ok))

\* The environment stops extending a chain that has reached the limit.
GenerateNextBlockUpTo(payloads, limit) ==
    \E data \in payloads :
        /\ ret = Idle
        /\ mined = <<>>
        /\ Len(blockchain) < limit
        /\ LET outcome == generateNextBlock(data) IN
               /\ Install(outcome)
               /\ ret' = [op |-> "generateNextBlock", ok |-> outcome.ok,
                          arg |-> <<mineNextBlock(data)>>, before |-> blockchain]
        /\ UNCHANGED <<clock, mined>>

GenerateNextBlock == GenerateNextBlockUpTo(Payloads, MaxLen)

SubmitBlockUpTo(limit) ==
    \E newBlock \in ReceivedBlocks :
        /\ ret = Idle
        /\ Len(blockchain) < limit
        /\ LET outcome == addBlockToChain(newBlock) IN
               /\ Install(outcome)
               /\ ret' = [op |-> "addBlockToChain", ok |-> outcome.ok,
                          arg |-> <<newBlock>>, before |-> blockchain]
        /\ UNCHANGED <<clock, mined>>

SubmitBlock == SubmitBlockUpTo(MaxLen)

SubmitChainUpTo(limit) ==
    \E newBlockchain \in ReceivedChains(limit) :
        /\ ret = Idle
        /\ LET outcome == replaceChain(newBlockchain) IN
               /\ Install(outcome)
               /\ ret' = [op |-> "replaceChain", ok |-> outcome.ok,
                          arg |-> newBlockchain, before |-> blockchain]
        /\ UNCHANGED <<clock, mined>>

SubmitChain == SubmitChainUpTo(MaxLen)

\* The caller takes the result; the store waits for the next call.
Return ==
    /\ ret # Idle
    /\ ret' = Idle
    /\ broadcasts' = 0
    /\ UNCHANGED <<blockchain, unspentTxOuts, clock, mined, advanced>>

Tick ==
    /\ ret = Idle
    /\ clock < genesisBlock.timestamp + MaxTicks * ClockStep
    /\ clock' = clock + ClockStep
    /\ ret' = Idle
    /\ broadcasts' = 0
    /\ UNCHANGED <<blockchain, unspentTxOuts, mined, advanced>>

Next == GenerateNextBlock \/ SubmitBlock \/ SubmitChain \/ Return \/ Tick

Spec == Init /\ [][Next]_vars

\* The search as a step of its own: the chain may move before the append.
StartMining ==
    \E data \in Payloads :
        /\ ret = Idle
        /\ mined = <<>>
        /\ Len(blockchain) < MaxMiningLen
        /\ mined' = <<mineNextBlock(data)>>
        /\ advanced' = FALSE
        /\ ret' = Idle
        /\ broadcasts' = 0
        /\ UNCHANGED <<blockchain, unspentTxOuts, clock>>

FinishMining ==
    /\ ret = Idle
    /\ mined # <<>>
    /\ LET outcome == appendMinedBlock(mined[1]) IN
           /\ blockchain' = outcome.blockchain
           /\ unspentTxOuts' = outcome.unspentTxOuts
           /\ broadcasts' = outcome.broadcasts
           /\ ret' = [op |-> "generateNextBlock", ok |-> outcome.ok, arg |-> mined,
                      before |-> blockchain]
    /\ mined' = <<>>
    /\ UNCHANGED <<clock, advanced>>

SubmitBlockWhileMining == SubmitBlockUpTo(MaxMiningLen)

SubmitChainWhileMining == SubmitChainUpTo(MaxMiningLen)

NextMining ==
    \/ StartMining
    \/ FinishMining
    \/ SubmitBlockWhileMining
    \/ SubmitChainWhileMining
    \/ Return
    \/ Tick

SpecMining == Init /\ [][NextMining]_vars

\* One adjustment window: the store alone mines empty blocks until the block
\* after the first adjustment, while the clock moves in steps of half the
\* expected time of a window.
RetargetLen == DIFFICULTY_ADJUSTMENT_INTERVAL + 2

WaitStep == (BLOCK_GENERATION_INTERVAL * DIFFICULTY_ADJUSTMENT_INTERVAL) \div 2

GenerateEmptyBlock == GenerateNextBlockUpTo({<<>>}, RetargetLen)

Wait ==
    /\ ret = Idle
    /\ clock < genesisBlock.timestamp + MaxWaits * WaitStep
    /\ clock' = clock + WaitStep
    /\ ret' = Idle
    /\ broadcasts' = 0
    /\ UNCHANGED <<blockchain, unspentTxOuts, mined, advanced>>

NextRetarget == GenerateEmptyBlock \/ Wait \/ Return

SpecRetarget == Init /\ [][NextRetarget]_vars

\* The functions of the difficulty engine and the miner, called on their
\* own: ret.value is what the call returns. Reading a field of the undefined
\* element an array gives outside its positions throws a TypeError.
GetDifficulty ==
    \E aBlockchain \in ForkedChains(MaxLen) :
        /\ ret = Idle
        /\ mined = <<>>
        /\ LET defined == Len(blockchain) - 1 < Len(aBlockchain) IN
               ret' = [op |-> "getDifficulty", ok |-> defined,
                       arg |-> aBlockchain, before |-> blockchain,
                       value |-> IF defined THEN getDifficulty(aBlockchain)
                                 ELSE "TypeError"]
        /\ broadcasts' = 0
        /\ UNCHANGED <<blockchain, unspentTxOuts, clock, mined, advanced>>

FindBlock ==
    \E index \in 1..MaxLen, previousHash \in {genesisBlock.hash, genesisBlock.previousHash},
       data \in Payloads, difficulty \in 0..HashBits :
        /\ ret = Idle
        /\ mined = <<>>
        /\ ret' = [op |-> "findBlock", ok |-> TRUE,
                   arg |-> <<index, previousHash, clock, data, difficulty>>,
                   before |-> blockchain,
                   value |-> findBlock(index, previousHash, clock, data, difficulty)]
        /\ broadcasts' = 0
        /\ UNCHANGED <<blockchain, unspentTxOuts, clock, mined, advanced>>

NextFunctions == GenerateNextBlock \/ GetDifficulty \/ FindBlock \/ Return \/ Tick

SpecFunctions == Init /\ [][NextFunctions]_vars

\* ----------------------------------------------------------------- claims
Appends == {"addBlockToChain", "generateNextBlock"}

Mutations == Appends \cup {"replaceChain"}

FoldOfChain == foldPayloads(blockchain, Len(blockchain))

\* C1: after a successful replaceChain the snapshot equals the fold of the
\* payloads of every block of the new chain, from the empty snapshot.
C1_SnapshotRederivedOnReplace ==
    (ret.op = "replaceChain" /\ ret.ok /\ ~FoldOfChain.isNull)
        => unspentTxOuts = FoldOfChain.outs

\* C2: every successful append (through generateNextBlock or a direct
\* addBlockToChain) and every successful replacement signals one broadcast.
C2_BroadcastOnEveryMutation ==
    (ret.op \in Mutations /\ ret.ok) => broadcasts = 1

\* C3: a successful addBlockToChain makes its argument the latest block, grows
\* the chain by exactly one, keeps the earlier positions, and installs the
\* snapshot obtained by applying the block's payload to the previous snapshot.
C3_AppendInstallsBlock ==
    [][(ret = Idle /\ ret'.op \in Appends /\ ret'.ok) =>
          LET newBlock == ret'.arg[1] IN
          /\ blockchain'[Len(blockchain')] = newBlock
          /\ Len(blockchain') = Len(blockchain) + 1
          /\ SubSeq(blockchain', 1, Len(blockchain)) = blockchain
          /\ processTransactions(newBlock.data, unspentTxOuts, newBlock.index)
                = [isNull |-> FALSE, outs |-> unspentTxOuts']]_vars

C3_Witness ==
    /\ ret.op = "addBlockToChain" /\ ret.ok
    /\ Len(blockchain) = 3
    /\ getLatestBlock = ret.arg[1]
    /\ ret.arg[1].data = <<Spend(1)>>
    /\ unspentTxOuts = {}

\* C4: addBlockToChain of a block whose previousHash is not the latest
\* block's hash, or that the new-block validator rejects otherwise, returns
\* false and leaves the chain and the snapshot as they were.
C4_InvalidBlockRejected ==
    [][(/\ ret = Idle
        /\ ret'.op \in Appends
        /\ \/ ret'.arg[1].previousHash # getLatestBlock.hash
           \/ ~isValidNewBlock(ret'.arg[1], getLatestBlock, clock))
       => (~ret'.ok /\ UNCHANGED <<blockchain, unspentTxOuts>>)]_vars

C4_Witness ==
    /\ ret.op = "addBlockToChain" /\ ~ret.ok
    /\ Len(blockchain) >= 2
    /\ ret.arg[1].previousHash = blockchain[Len(blockchain) - 1].hash
    /\ ret.arg[1].previousHash # getLatestBlock.hash
    /\ blockchain = ret.before

\* C5: when the payload of a structurally valid block cannot be applied, the
\* append fails and changes nothing; an append either adds the block and
\* installs its snapshot, or does neither.
C5_AppendAllOrNothing ==
    [][(ret = Idle /\ ret'.op \in Appends) =>
          LET newBlock == ret'.arg[1]
              applied == processTransactions(newBlock.data, unspentTxOuts,
                                             newBlock.index)
          IN  /\ (isValidNewBlock(newBlock, getLatestBlock, clock) /\ applied.isNull)
                    => (~ret'.ok /\ UNCHANGED <<blockchain, unspentTxOuts>>)
              /\ \/ /\ ret'.ok
                    /\ blockchain' = Append(blockchain, newBlock)
                    /\ ~applied.isNull
                    /\ unspentTxOuts' = applied.outs
                 \/ /\ ~ret'.ok
                    /\ UNCHANGED <<blockchain, unspentTxOuts>>]_vars

C5_Witness ==
    /\ ret.op = "addBlockToChain" /\ ~ret.ok
    /\ isValidNewBlock(ret.arg[1], getLatestBlock, clock)
    /\ processTransactions(ret.arg[1].data, unspentTxOuts, ret.arg[1].index).isNull
    /\ blockchain = ret.before

\* C6: replaceChain of a valid chain with strictly more cumulative work makes
\* the chain equal to the whole candidate, also when the candidate is shorter.
C6_HeavierChainAdopted ==
    [][(/\ ret = Idle
        /\ ret'.op = "replaceChain"
        /\ isValidChain(ret'.arg, clock)
        /\ getAccumulatedDifficulty(ret'.arg) > getAccumulatedDifficulty(blockchain))
       => (ret'.ok /\ blockchain' = ret'.arg)]_vars

\* The chains of the comment in replaceChain, by their difficulties.
ChainOfDifficulties(difficulties) ==
    [i \in 1..Len(difficulties) |->
        Block(i - 1, <<>>, <<>>, 0, <<>>, difficulties[i], 0)]

C6_Witness ==
    /\ ret.op = "replaceChain" /\ ret.ok
    /\ blockchain = ret.arg
    /\ Len(ret.arg) < Len(ret.before)
    /\ getAccumulatedDifficulty(ret.arg) > getAccumulatedDifficulty(ret.before)
    /\ getAccumulatedDifficulty(ChainOfDifficulties(<<4, 4, 4, 4, 5>>)) = 96
    /\ getAccumulatedDifficulty(ChainOfDifficulties(<<6, 6>>)) = 128

\* C7: replaceChain of a valid chain whose cumulative work is at most the
\* current chain's (a tie included) changes neither the chain nor the
\* snapshot and signals no broadcast.
C7_NotHeavierIsNoOp ==
    [][(/\ ret = Idle
        /\ ret'.op = "replaceChain"
        /\ isValidChain(ret'.arg, clock)
        /\ getAccumulatedDifficulty(ret'.arg) <= getAccumulatedDifficulty(blockchain))
       => (/\ ~ret'.ok
           /\ UNCHANGED <<blockchain, unspentTxOuts>>
           /\ broadcasts' = 0)]_vars

C7_Witness ==
    /\ ret.op = "replaceChain" /\ ~ret.ok
    /\ isValidChain(ret.arg, clock)
    /\ ret.arg # blockchain
    /\ Len(ret.arg) = Len(blockchain)
    /\ ret.arg[Len(ret.arg)].difficulty = MaxDifficulty
    /\ getAccumulatedDifficulty(ret.arg) = getAccumulatedDifficulty(blockchain)
    /\ broadcasts = 0

\* C8: replaceChain of a chain that fails isValidChain changes neither the
\* chain nor the snapshot and signals no broadcast, whatever work it claims.
C8_InvalidChainRejected ==
    [][(/\ ret = Idle
        /\ ret'.op = "replaceChain"
        /\ ~isValidChain(ret'.arg, clock))
       => (/\ ~ret'.ok
           /\ UNCHANGED <<blockchain, unspentTxOuts>>
           /\ broadcasts' = 0)]_vars

C8_Witness ==
    /\ ret.op = "replaceChain" /\ ~ret.ok
    /\ Len(ret.arg) >= 1
    /\ ~isValidChain(ret.arg, clock)
    /\ getAccumulatedDifficulty(ret.arg) > 2 * getAccumulatedDifficulty(blockchain)
    /\ Len(blockchain) = MaxLen
    /\ blockchain = ret.before

\* C9: when the chain advances between the moment a search reads the latest
\* block and its append, the mined block is rejected, generateNextBlock
\* returns null, nothing is broadcast, and chain and snapshot stay as the
\* interleaved operation left them.
C9_StaleMinedBlockRejected ==
    [][(ret = Idle /\ mined # <<>> /\ mined' = <<>> /\ advanced)
       => (/\ ret'.op = "generateNextBlock"
           /\ ~ret'.ok
           /\ broadcasts' = 0
           /\ UNCHANGED <<blockchain, unspentTxOuts>>)]_vars

C9_Witness ==
    /\ ret.op = "generateNextBlock" /\ ~ret.ok
    /\ advanced
    /\ ret.arg[1].previousHash = genesisBlock.hash
    /\ ret.arg[1].index = getLatestBlock.index
    /\ Len(blockchain) = 2
    /\ unspentTxOuts = {}
    /\ getLatestBlock.data = <<Coinbase>>

\* C10: position 0 of the chain always has the hash, the index 0 and the
\* empty payload of the hard-coded genesis block.
C10_GenesisImmutable ==
    /\ blockchain[1].hash = genesisBlock.hash
    /\ blockchain[1].index = 0
    /\ blockchain[1].data = <<>>

C10_Witness ==
    /\ ret.op = "replaceChain" /\ ~ret.ok
    /\ Len(ret.arg) = 2
    /\ ret.arg[1].hash = genesisBlock.hash
    /\ ret.arg[1].data # <<>>
    /\ getAccumulatedDifficulty(ret.arg) > getAccumulatedDifficulty(blockchain)
    /\ Len(blockchain) = 2

\* C11: in every reachable state each block after the first has the index of
\* its predecessor plus one (so its index is its position) and carries its
\* predecessor's hash as previousHash; appends and replacements keep this.
C11_ChainLinked ==
    \A i \in 2..Len(blockchain) :
        /\ blockchain[i].index = blockchain[i - 1].index + 1
        /\ blockchain[i].index = i - 1
        /\ blockchain[i].previousHash = blockchain[i - 1].hash

C11_Witness ==
    /\ ret.op = "replaceChain" /\ ret.ok
    /\ blockchain = ret.arg
    /\ Len(blockchain) = 3
    /\ Len(ret.before) = 3
    /\ blockchain[2] = ret.before[2]
    /\ blockchain[3].previousHash = blockchain[2].hash

\* C12: every block of the chain, and every difficulty generateNextBlock
\* mines at, is at least 0, whatever timestamps the chain accepted.
C12_DifficultyNonNegative ==
    /\ \A i \in 1..Len(blockchain) : blockchain[i].difficulty >= 0
    /\ ret.op = "generateNextBlock" => ret.arg[1].difficulty >= 0

\* The difficulty of the next block as a function of a chain alone: the
\* adjusted one when the chain's last index is a positive multiple of the
\* interval, the last block's own otherwise.
currentDifficulty(chain) ==
    LET latest == chain[Len(chain)]
        reference == At(chain, Len(chain) - DIFFICULTY_ADJUSTMENT_INTERVAL)
        expectedSeconds == BLOCK_GENERATION_INTERVAL * DIFFICULTY_ADJUSTMENT_INTERVAL
        actualSeconds == latest.timestamp - reference.timestamp
    IN  IF latest.index % DIFFICULTY_ADJUSTMENT_INTERVAL = 0 /\ latest.index # 0
        THEN IF 2 * actualSeconds < expectedSeconds THEN reference.difficulty + 1
             ELSE IF actualSeconds > 2 * expectedSeconds THEN reference.difficulty - 1
             ELSE reference.difficulty
        ELSE latest.difficulty

\* C13: getDifficulty depends on the chain passed to it only, never on the
\* length of the store's chain: it returns the adjusted difficulty when that
\* chain's last index is a positive multiple of 10, and that chain's last
\* block's difficulty otherwise.
C13_DifficultyOfChainPassed ==
    ret.op = "getDifficulty" =>
        (ret.ok /\ ret.value = currentDifficulty(ret.arg))

\* C15: the block findBlock returns has the requested fields, its hash is
\* the digest of them with its nonce, the hash meets the requested
\* difficulty, and no smaller nonce from 0 on does.
C15_MinedBlockHasSmallestNonce ==
    ret.op = "findBlock" =>
        LET a == ret.arg
            b == ret.value
        IN  /\ <<b.index, b.previousHash, b.timestamp, b.data, b.difficulty>> = a
            /\ b.hash = calculateHash(a[1], a[2], a[3], a[4], a[5], b.nonce)
            /\ hashMatchesDifficulty(b.hash, a[5])
            /\ b.nonce >= 0
            /\ \A n \in 0..(b.nonce - 1) :
                   ~hashMatchesDifficulty(
                        calculateHash(a[1], a[2], a[3], a[4], a[5], n), a[5])

C15_Witness ==
    /\ ret.op = "findBlock"
    /\ ret.arg[5] = HashBits
    /\ ret.value.nonce >= 3
    /\ LeadingZeroBits(ret.value.hash) = HashBits

\* C14: when generateNextBlock adjusts, the difficulty it mines at is the
\* reference block's plus one exactly when the window took less than 50
\* seconds, minus one exactly when it took more than 200, and the reference
\* block's own otherwise, 50 and 200 seconds included.
C14_AdjustsByAtMostOne ==
    [][(/\ ret = Idle
        /\ ret'.op = "generateNextBlock"
        /\ getLatestBlock.index % 10 = 0
        /\ getLatestBlock.index # 0)
       => LET reference == At(blockchain, Len(blockchain) - 10)
              expectedSeconds == 10 * 10
              actualSeconds == getLatestBlock.timestamp - reference.timestamp
              adjusted == ret'.arg[1].difficulty
          IN  /\ adjusted - reference.difficulty \in {-1, 0, 1}
              /\ (adjusted = reference.difficulty + 1)
                    <=> (2 * actualSeconds < expectedSeconds)
              /\ (adjusted = reference.difficulty - 1)
                    <=> (actualSeconds > expectedSeconds * 2)
              /\ (actualSeconds \in {50, 200}) => adjusted = reference.difficulty]_vars

C14_Witness ==
    /\ ret.op = "generateNextBlock" /\ ret.ok
    /\ Len(ret.before) = 11
    /\ ret.before[11].timestamp - ret.before[2].timestamp = 200
    /\ ret.arg[1].difficulty = ret.before[2].difficulty
    /\ getLatestBlock = ret.arg[1]

\* C20: whenever generateNextBlock adjusts the difficulty (the latest index
\* is a positive multiple of 10), the position the reference block is read
\* from is at least 1 and inside the chain, and the block there has the
\* latest index minus 9.
C20_ReferenceBlockExists ==
    [][(/\ ret = Idle
        /\ ret'.op = "generateNextBlock"
        /\ getLatestBlock.index % 10 = 0
        /\ getLatestBlock.index # 0)
       => (/\ prevAdjustmentPosition >= 1
           /\ prevAdjustmentPosition < Len(blockchain)
           /\ At(blockchain, prevAdjustmentPosition).index
                 = getLatestBlock.index - 9)]_vars

C20_Witness ==
    /\ ret.op = "generateNextBlock" /\ ret.ok
    /\ Len(ret.before) = 11
    /\ ret.before[11].index = 10
    /\ ret.before[11].timestamp = ret.before[2].timestamp
    /\ ret.arg[1].difficulty = ret.before[2].difficulty + 1

\* C16: from the initial chain [Genesis], generateNextBlock of an empty
\* payload finds nonce 0 at its first try, succeeds, and leaves a chain of
\* length 2 whose latest block has index 1, difficulty 0 and the genesis
\* hash as previousHash.
C16_FirstBlockMinedAtOnce ==
    (/\ ret.op = "generateNextBlock"
     /\ ret.before = <<genesisBlock>>
     /\ ret.arg[1].data = <<>>)
    => (/\ ret.ok
        /\ ret.arg[1].nonce = 0
        /\ ret.arg[1].index = 1
        /\ ret.arg[1].difficulty = 0
        /\ ret.arg[1].previousHash = genesisBlock.hash
        /\ blockchain = <<genesisBlock, ret.arg[1]>>)

C16_Witness ==
    /\ ret.op = "generateNextBlock" /\ ret.ok
    /\ ret.before = <<genesisBlock>>
    /\ ret.arg[1].data = <<>>
    /\ ret.arg[1].nonce = 0
    /\ Len(blockchain) = 2
    /\ getLatestBlock = ret.arg[1]
    /\ clock > genesisBlock.timestamp

\* The work of a chain counted difficulty by difficulty: the number of
\* blocks of each difficulty up to d, times 2 to that difficulty.
RECURSIVE WorkByDifficulty(_, _)
WorkByDifficulty(chain, d) ==
    IF d < 0 THEN 0
    ELSE Cardinality({i \in 1..Len(chain) : chain[i].difficulty = d}) * (2 ^ d)
            + WorkByDifficulty(chain, d - 1)

WorkIsSumOfPowers(chain) ==
    /\ getAccumulatedDifficulty(chain) = WorkByDifficulty(chain, HashBits)
    /\ \A n \in 2..Len(chain) :
          (\A i \in 2..n : chain[i].difficulty = chain[n].difficulty)
          => /\ getAccumulatedDifficulty(SubSeq(chain, 1, n))
                   > getAccumulatedDifficulty(SubSeq(chain, 1, n - 1))
             /\ getAccumulatedDifficulty(SubSeq(chain, 1, n))
                   = (2 ^ chain[1].difficulty) + (n - 1) * (2 ^ chain[n].difficulty)

\* C17: getAccumulatedDifficulty of a chain is the sum of 2^difficulty over
\* all its blocks, and it grows strictly with every block appended at one
\* and the same difficulty.
C17_WorkIsSumOfPowers ==
    /\ WorkIsSumOfPowers(blockchain)
    /\ (ret.op = "replaceChain" /\ Len(ret.arg) >= 1) => WorkIsSumOfPowers(ret.arg)

C17_Witness ==
    /\ ret.op = "replaceChain"
    /\ Len(ret.arg) = 3
    /\ ret.arg[2].difficulty = MaxDifficulty
    /\ ret.arg[3].difficulty = MaxDifficulty
    /\ getAccumulatedDifficulty(ret.arg) = 1 + 2 * (2 ^ MaxDifficulty)
    /\ getAccumulatedDifficulty(SubSeq(ret.arg, 1, 2)) = 1 + (2 ^ MaxDifficulty)

\* C18: the cumulative work of the store's chain never decreases: every
\* successful append and every successful replacement increases it
\* strictly, and a rejected operation leaves it as it was.
C18_WorkNeverDecreases ==
    [][/\ getAccumulatedDifficulty(blockchain')
             >= getAccumulatedDifficulty(blockchain)
       /\ (ret = Idle /\ ret'.op \in Mutations /\ ret'.ok)
             => getAccumulatedDifficulty(blockchain')
                   > getAccumulatedDifficulty(blockchain)
       /\ (ret = Idle /\ ret'.op \in Mutations /\ ~ret'.ok)
             => getAccumulatedDifficulty(blockchain')
                   = getAccumulatedDifficulty(blockchain)]_vars

C18_Witness ==
    /\ ret.op = "replaceChain" /\ ret.ok
    /\ Len(blockchain) < Len(ret.before)
    /\ getAccumulatedDifficulty(blockchain) > getAccumulatedDifficulty(ret.before)
    /\ blockchain[2] # ret.before[2]
    /\ broadcasts = 1

\* C19: every block after the first carries the difficulty the retargeting
\* rule gives for the chain before it, so neither addBlockToChain nor
\* replaceChain installs a block of another difficulty.
C19_EveryBlockAtRetargetDifficulty ==
    \A i \in 2..Len(blockchain) :
        blockchain[i].difficulty = currentDifficulty(SubSeq(blockchain, 1, i - 1))

\* C19, amended: generateNextBlock mines at the difficulty the retargeting
\* rule gives for the chain it extends; a block installed by addBlockToChain
\* or replaceChain has a hash that meets the difficulty the block itself
\* states, which need not be the rule's.
C19_MinedAtRetargetDifficulty ==
    /\ ret.op = "generateNextBlock"
          => ret.arg[1].difficulty = currentDifficulty(ret.before)
    /\ \A i \in 2..Len(blockchain) :
          hashMatchesDifficulty(blockchain[i].hash, blockchain[i].difficulty)

C19_Witness ==
    /\ ret.op = "generateNextBlock" /\ ret.ok
    /\ Len(ret.before) = 2
    /\ ret.before[2].difficulty = MaxDifficulty
    /\ ret.before[2].difficulty # currentDifficulty(<<ret.before[1]>>)
    /\ ret.arg[1].difficulty = MaxDifficulty
    /\ getLatestBlock = ret.arg[1]
====
